---- MODULE Spec2Model ----
(***************************************************************************)
(* Model of app.py: the module-level load of loan_model.pkl and the        *)
(* request handler predict_loan, run by a pool of worker threads.          *)
(*                                                                         *)
(* Units.  Python floats are modelled by scaled integers:                  *)
(*   interest_rate        in tenths of a percent   (10.0 -> 100)           *)
(*   loan_percent_income  in hundredths            (0.3  -> 30)            *)
(*   a class probability  in units of 10^-5        (0.5  -> 50000)         *)
(*   a confidence         in units of 10^-5 percent before formatting and  *)
(*                        in hundredths of a percent after ":.2f".         *)
(* The emoji that open the three result strings are left out of the        *)
(* string literals.                                                        *)
(***************************************************************************)
EXTENDS Integers, Sequences, FiniteSets, TLC

\* Number of worker threads that may run predict_loan at the same time.
NumThreads == 2

Threads == 1..NumThreads

VARIABLES
    bundle_file,    \* loan_model.pkl as found on disk (environment)
    main,           \* position of the module-level code
    model_data,     \* global: the unpickled bundle
    model,          \* global: model_data['model']
    scaler,         \* global: model_data['scaler']
    feature_names,  \* global: model_data['feature_names']
    load_error,     \* the exception that ended the import, if any
    pc,             \* per thread: position inside predict_loan
    args,           \* per thread: the thirteen arguments of the call
    encoded,        \* per thread: the *_encoded and intent_* locals
    input_dict,     \* per thread: local input_dict
    input_data,     \* per thread: local input_data
    input_scaled_df,\* per thread: local input_scaled_df
    prediction,     \* per thread: local prediction, an array of one label
    probability,    \* per thread: local probability, an array of one row
    returned,       \* per thread: the string predict_loan returned
    raised          \* per thread: the exception that left predict_loan

globals == <<model_data, model, scaler, feature_names>>
startup == <<bundle_file, main, model_data, model, scaler, feature_names, load_error>>
locals  == <<args, encoded, input_dict, input_data, input_scaled_df, prediction,
             probability, returned, raised>>
vars    == <<bundle_file, main, model_data, model, scaler, feature_names, load_error,
             pc, args, encoded, input_dict, input_data, input_scaled_df, prediction,
             probability, returned, raised>>

None == <<>>

-----------------------------------------------------------------------------
(* The encoding tables of predict_loan.                                    *)

gender_map == [female |-> 0, male |-> 1]

\* The codes a LabelEncoder would assign (alphabetical order).
education_map_alphabetical ==
    ("Associate" :> 0) @@ ("Bachelor" :> 1) @@ ("High School" :> 2) @@ ("Master" :> 3)

education_map ==
    ("High School" :> 0) @@ ("Associate" :> 1) @@ ("Bachelor" :> 2) @@ ("Master" :> 3)

home_map ==
    ("RENT" :> 0) @@ ("OWN" :> 1) @@ ("MORTGAGE" :> 2) @@ ("OTHER" :> 3)

defaults_map == [No |-> 0, Yes |-> 1]

\* The fifth comparison repeats the fourth.
OneHotRepeated(loan_intent) ==
    [intent_education       |-> IF loan_intent = "EDUCATION" THEN 1 ELSE 0,
     intent_homeimprovement |-> IF loan_intent = "HOMEIMPROVEMENT" THEN 1 ELSE 0,
     intent_medical         |-> IF loan_intent = "MEDICAL" THEN 1 ELSE 0,
     intent_personal        |-> IF loan_intent = "PERSONAL" THEN 1 ELSE 0,
     intent_venture         |-> IF loan_intent = "PERSONAL" THEN 1 ELSE 0]

\* 1 if loan_intent == "<NAME>" else 0, five times.
OneHot(loan_intent) ==
    [intent_education       |-> IF loan_intent = "EDUCATION" THEN 1 ELSE 0,
     intent_homeimprovement |-> IF loan_intent = "HOMEIMPROVEMENT" THEN 1 ELSE 0,
     intent_medical         |-> IF loan_intent = "MEDICAL" THEN 1 ELSE 0,
     intent_personal        |-> IF loan_intent = "PERSONAL" THEN 1 ELSE 0,
     intent_venture         |-> IF loan_intent = "VENTURE" THEN 1 ELSE 0]

KeyError(key) == [type |-> "KeyError", key |-> key]

\* loan_intent looked up in a table of the five intents, like the other
\* four categorical arguments.
EncodeFailureWithIntent(a) ==
    IF a.gender \notin DOMAIN gender_map THEN KeyError(a.gender)
    ELSE IF a.education \notin DOMAIN education_map THEN KeyError(a.education)
    ELSE IF a.home_ownership \notin DOMAIN home_map THEN KeyError(a.home_ownership)
    ELSE IF a.previous_defaults \notin DOMAIN defaults_map THEN KeyError(a.previous_defaults)
    ELSE IF a.loan_intent \notin {"EDUCATION", "HOMEIMPROVEMENT", "MEDICAL", "PERSONAL",
                                  "VENTURE"} THEN KeyError(a.loan_intent)
    ELSE None

\* The first dictionary lookup of lines 25-39 that fails, in program order;
\* None when all four succeed.
EncodeFailure(a) ==
    IF a.gender \notin DOMAIN gender_map THEN KeyError(a.gender)
    ELSE IF a.education \notin DOMAIN education_map THEN KeyError(a.education)
    ELSE IF a.home_ownership \notin DOMAIN home_map THEN KeyError(a.home_ownership)
    ELSE IF a.previous_defaults \notin DOMAIN defaults_map THEN KeyError(a.previous_defaults)
    ELSE None

\* The locals bound by lines 25-46 when no lookup fails.
EncodeLocals(a) ==
    [gender_encoded    |-> gender_map[a.gender],
     education_encoded |-> education_map[a.education],
     home_encoded      |-> home_map[a.home_ownership],
     defaults_encoded  |-> defaults_map[a.previous_defaults],
     intent            |-> OneHot(a.loan_intent)]

\* The dictionary literal of lines 49-67.
InputDict(a, e) ==
    [person_age                     |-> a.age,
     person_gender                  |-> e.gender_encoded,
     person_education               |-> e.education_encoded,
     person_income                  |-> a.income,
     person_emp_exp                 |-> a.emp_exp,
     person_home_ownership          |-> e.home_encoded,
     loan_amnt                      |-> a.loan_amount,
     loan_int_rate                  |-> a.interest_rate,
     loan_percent_income            |-> a.loan_percent_income,
     cb_person_cred_hist_length     |-> a.credit_history,
     credit_score                   |-> a.credit_score,
     previous_loan_defaults_on_file |-> e.defaults_encoded,
     loan_intent_EDUCATION          |-> e.intent.intent_education,
     loan_intent_HOMEIMPROVEMENT    |-> e.intent.intent_homeimprovement,
     loan_intent_MEDICAL            |-> e.intent.intent_medical,
     loan_intent_PERSONAL           |-> e.intent.intent_personal,
     loan_intent_VENTURE            |-> e.intent.intent_venture]

\* pd.DataFrame([d])[names]: the columns of the one-row frame selected by
\* label, in the order of names.  Labels that are no column raise a KeyError
\* that lists them.
SelectFailure(d, names) ==
    LET missing == {names[i] : i \in 1..Len(names)} \ DOMAIN d
    IN  IF missing # {} THEN [type |-> "KeyError", key |-> missing] ELSE None

\* Selection by position in the dictionary literal instead of by label.
SelectColumnsByPosition(d, names) ==
    [columns |-> names,
     values |-> [i \in 1..Len(names) |->
                   d[<< "person_age", "person_gender", "person_education",
                        "person_income", "person_emp_exp", "person_home_ownership",
                        "loan_amnt", "loan_int_rate", "loan_percent_income",
                        "cb_person_cred_hist_length", "credit_score",
                        "previous_loan_defaults_on_file", "loan_intent_EDUCATION",
                        "loan_intent_HOMEIMPROVEMENT", "loan_intent_MEDICAL",
                        "loan_intent_PERSONAL", "loan_intent_VENTURE" >>[i]]]]

SelectColumns(d, names) ==
    [columns |-> names, values |-> [i \in 1..Len(names) |-> d[names[i]]]]

-----------------------------------------------------------------------------
(* The artifact: scaler and model are opaque objects; what their methods   *)
(* return is chosen by the environment at each call.                       *)

\* scaler.transform(input_data) when it does not raise: an array, rewrapped
\* with the columns feature_names (lines 74-75).
ScaledFrame(data, names) ==
    [columns |-> names, values |-> [scaled |-> data.values]]

\* probability[0][k] * 100
Percent(p) == p * 100

\* f"{confidence:.2f}": the confidence rounded to hundredths of a percent.
\* (No sampled probability sits exactly between two hundredths.)
Format2f(confidence) == (confidence + 500) \div 1000

\* Both branches read the first probability.
VerdictFirstClass(label, proba) ==
    IF label[1] = 0
    THEN [kind |-> "verdict", result |-> "Loan Approved",
          confidence |-> Format2f(Percent(proba[1][1]))]
    ELSE [kind |-> "verdict", result |-> "Loan Rejected (High Default Risk)",
          confidence |-> Format2f(Percent(proba[1][1]))]

\* Lines 81-88: the verdict string built from prediction[0] and
\* probability[0] (arrays are indexed from 1 here).
Verdict(label, proba) ==
    IF label[1] = 0
    THEN [kind |-> "verdict", result |-> "Loan Approved",
          confidence |-> Format2f(Percent(proba[1][1]))]
    ELSE [kind |-> "verdict", result |-> "Loan Rejected (High Default Risk)",
          confidence |-> Format2f(Percent(proba[1][2]))]

\* Line 91: f"Error: {str(e)}"
ErrorString(e) == [kind |-> "error", prefix |-> "Error: ", message |-> e]

-----------------------------------------------------------------------------
(* Inputs: what the environment can put on disk and pass to predict_loan.  *)

\* The 17 keys in the order of the dictionary literal.
DictOrder ==
    << "person_age", "person_gender", "person_education", "person_income",
       "person_emp_exp", "person_home_ownership", "loan_amnt", "loan_int_rate",
       "loan_percent_income", "cb_person_cred_hist_length", "credit_score",
       "previous_loan_defaults_on_file", "loan_intent_EDUCATION",
       "loan_intent_HOMEIMPROVEMENT", "loan_intent_MEDICAL",
       "loan_intent_PERSONAL", "loan_intent_VENTURE" >>

Reverse(s) == [i \in 1..Len(s) |-> s[Len(s) + 1 - i]]

Without(s, x) == SelectSeq(s, LAMBDA y : y # x)

\* Feature-name lists a pickled bundle may carry: two orders of the 17 keys,
\* a list that omits a key, and lists that name a column the handler does
\* not build (in addition to, or instead of, one it builds).
FeatureLists ==
    { DictOrder,
      Reverse(DictOrder),
      Without(DictOrder, "credit_score"),
      Append(DictOrder, "loan_intent_DEBTCONSOLIDATION"),
      Append(Without(DictOrder, "credit_score"), "cb_score") }

BundleKeys == {"model", "scaler", "feature_names"}

Bundle(names) == [model |-> "model", scaler |-> "scaler", feature_names |-> names]

\* loan_model.pkl: absent, not a pickle, or a pickled dict holding some of
\* the three keys.
BundleFiles ==
    { [exists |-> FALSE, pickle |-> FALSE, data |-> None],
      [exists |-> TRUE,  pickle |-> FALSE, data |-> None] }
    \cup { [exists |-> TRUE, pickle |-> TRUE, data |-> Bundle(names)] :
             names \in FeatureLists }
    \cup { [exists |-> TRUE, pickle |-> TRUE,
            data |-> [k \in keys |-> Bundle(DictOrder)[k]]] :
             keys \in (SUBSET BundleKeys) \ {BundleKeys} }

\* Argument values: the choices of the form's dropdowns (lines 98-112) and,
\* for each, values the form does not offer.
Genders    == {"female", "male", "nonbinary"}
Educations == {"High School", "Associate", "Bachelor", "Master", "HighSchool", "PhD"}
Homes      == {"RENT", "OWN", "MORTGAGE", "OTHER", "FAMILY"}
Defaults   == {"No", "Yes", "Unknown"}
Intents    == {"EDUCATION", "HOMEIMPROVEMENT", "MEDICAL", "PERSONAL", "VENTURE",
               "DEBTCONSOLIDATION"}

\* The numeric arguments of the first two example rows (lines 118-119).
Numerics ==
    { [age |-> 30, income |-> 50000, emp_exp |-> 5, loan_amount |-> 10000,
       interest_rate |-> 100, loan_percent_income |-> 30, credit_history |-> 5,
       credit_score |-> 650],
      [age |-> 45, income |-> 80000, emp_exp |-> 15, loan_amount |-> 25000,
       interest_rate |-> 85, loan_percent_income |-> 25, credit_history |-> 10,
       credit_score |-> 720] }

Application(n, g, e, h, i, d) ==
    [age |-> n.age, gender |-> g, education |-> e, income |-> n.income,
     emp_exp |-> n.emp_exp, home_ownership |-> h, loan_amount |-> n.loan_amount,
     loan_intent |-> i, interest_rate |-> n.interest_rate,
     loan_percent_income |-> n.loan_percent_income,
     credit_history |-> n.credit_history, credit_score |-> n.credit_score,
     previous_defaults |-> d]

\* Every combination of the sampled argument values.
Applications ==
    { Application(n, g, e, h, i, d) :
        n \in Numerics, g \in Genders, e \in Educations, h \in Homes,
        i \in Intents, d \in Defaults }

\* The calls made while several threads run: the first example row and the
\* calls that differ from it in one categorical argument.
Example1 ==
    Application(CHOOSE n \in Numerics : n.age = 30,
                "male", "Bachelor", "RENT", "PERSONAL", "No")

ConcurrentApplications ==
    { Example1,
      [Example1 EXCEPT !.education = "PhD"],
      [Example1 EXCEPT !.education = "High School", !.previous_defaults = "Yes"],
      [Example1 EXCEPT !.loan_intent = "DEBTCONSOLIDATION"] }

\* What model.predict and model.predict_proba may return for the one row:
\* a label and a pair (P(class 0), P(class 1)).
Labels == {0, 1}
Probabilities ==
    { <<100000, 0>>, <<87654, 12346>>, <<50000, 50000>>, <<33333, 66667>>, <<0, 100000>> }

\* Exceptions the artifact's methods may raise.
TransformErrors == {"X has 16 features, but StandardScaler is expecting 17 features as input."}
PredictErrors   == {"Input contains NaN."}

-----------------------------------------------------------------------------
(* Module-level code, lines 8-19 and 93-125.                               *)

Init ==
    /\ bundle_file \in BundleFiles
    /\ main = "import"
    /\ model_data = None
    /\ model = "unbound"
    /\ scaler = "unbound"
    /\ feature_names = None
    /\ load_error = "none"
    /\ pc = [t \in Threads |-> "idle"]
    /\ args = [t \in Threads |-> None]
    /\ encoded = [t \in Threads |-> None]
    /\ input_dict = [t \in Threads |-> None]
    /\ input_data = [t \in Threads |-> None]
    /\ input_scaled_df = [t \in Threads |-> None]
    /\ prediction = [t \in Threads |-> None]
    /\ probability = [t \in Threads |-> None]
    /\ returned = [t \in Threads |-> None]
    /\ raised = [t \in Threads |-> None]

\* An exception at module level ends the import: nothing below it runs.
Fatal(e) ==
    /\ main' = "fatal"
    /\ load_error' = e

\* Line 14: model_data = pickle.load(open(model_path, 'rb'))
LoadBundle ==
    /\ main = "import"
    /\ \/ /\ ~bundle_file.exists
          /\ Fatal("FileNotFoundError")
          /\ UNCHANGED model_data
       \/ /\ bundle_file.exists
          /\ ~bundle_file.pickle
          /\ Fatal("UnpicklingError")
          /\ UNCHANGED model_data
       \/ /\ bundle_file.exists
          /\ bundle_file.pickle
          /\ model_data' = bundle_file.data
          /\ main' = "model"
          /\ UNCHANGED load_error
    /\ UNCHANGED <<bundle_file, model, scaler, feature_names, pc>>
    /\ UNCHANGED locals

\* Line 15: model = model_data['model']
GetModel ==
    /\ main = "model"
    /\ \/ /\ "model" \notin DOMAIN model_data
          /\ Fatal("KeyError")
          /\ UNCHANGED model
       \/ /\ "model" \in DOMAIN model_data
          /\ model' = model_data["model"]
          /\ main' = "scaler"
          /\ UNCHANGED load_error
    /\ UNCHANGED <<bundle_file, model_data, scaler, feature_names, pc>>
    /\ UNCHANGED locals

\* model_data.get('scaler'): a missing key yields None and the import goes on.
GetScalerOrNone ==
    /\ main = "scaler"
    /\ scaler' = IF "scaler" \in DOMAIN model_data THEN model_data["scaler"] ELSE "None"
    /\ main' = "feature_names"
    /\ UNCHANGED <<bundle_file, model_data, model, feature_names, load_error, pc>>
    /\ UNCHANGED locals

\* Line 16: scaler = model_data['scaler']
GetScaler ==
    /\ main = "scaler"
    /\ \/ /\ "scaler" \notin DOMAIN model_data
          /\ Fatal("KeyError")
          /\ UNCHANGED scaler
       \/ /\ "scaler" \in DOMAIN model_data
          /\ scaler' = model_data["scaler"]
          /\ main' = "feature_names"
          /\ UNCHANGED load_error
    /\ UNCHANGED <<bundle_file, model_data, model, feature_names, pc>>
    /\ UNCHANGED locals

\* Line 17: feature_names = model_data['feature_names']
GetFeatureNames ==
    /\ main = "feature_names"
    /\ \/ /\ "feature_names" \notin DOMAIN model_data
          /\ Fatal("KeyError")
          /\ UNCHANGED feature_names
       \/ /\ "feature_names" \in DOMAIN model_data
          /\ feature_names' = model_data["feature_names"]
          /\ main' = "interface"
          /\ UNCHANGED load_error
    /\ UNCHANGED <<bundle_file, model_data, model, scaler, pc>>
    /\ UNCHANGED locals

\* Lines 93-125: the interface is built around predict_loan and launched.
Launch ==
    /\ main = "interface"
    /\ main' = "serving"
    /\ UNCHANGED <<bundle_file, model_data, model, scaler, feature_names, load_error, pc>>
    /\ UNCHANGED locals

Startup == LoadBundle \/ GetModel \/ GetScaler \/ GetFeatureNames \/ Launch

-----------------------------------------------------------------------------
(* predict_loan, lines 21-91, run by thread t.                             *)

\* An exception outside the try block leaves predict_loan.
Raise(t, e) ==
    /\ pc' = [pc EXCEPT ![t] = "raised"]
    /\ raised' = [raised EXCEPT ![t] = e]
    /\ UNCHANGED returned

\* No handler: the exception leaves predict_loan.
ExceptHandlerMissing(t, e) ==
    /\ pc' = [pc EXCEPT ![t] = "raised"]
    /\ raised' = [raised EXCEPT ![t] = [type |-> "Exception", key |-> e]]
    /\ UNCHANGED returned

\* Lines 90-91: except Exception as e: return f"Error: {str(e)}"
ExceptHandler(t, e) ==
    /\ pc' = [pc EXCEPT ![t] = "returned"]
    /\ returned' = [returned EXCEPT ![t] = ErrorString(e)]
    /\ UNCHANGED raised

\* The interface calls predict_loan with the submitted values.
Call(t, apps) ==
    /\ main = "serving"
    /\ pc[t] = "idle"
    /\ \E a \in apps : args' = [args EXCEPT ![t] = a]
    /\ pc' = [pc EXCEPT ![t] = "encode"]
    /\ UNCHANGED startup
    /\ UNCHANGED <<encoded, input_dict, input_data, input_scaled_df, prediction,
                   probability, returned, raised>>

\* Lines 25-46: the four dictionary lookups and the five indicators.
Encode(t) ==
    /\ pc[t] = "encode"
    /\ \/ /\ EncodeFailure(args[t]) # None
          /\ Raise(t, EncodeFailure(args[t]))
          /\ UNCHANGED encoded
       \/ /\ EncodeFailure(args[t]) = None
          /\ encoded' = [encoded EXCEPT ![t] = EncodeLocals(args[t])]
          /\ pc' = [pc EXCEPT ![t] = "assemble"]
          /\ UNCHANGED <<returned, raised>>
    /\ UNCHANGED startup
    /\ UNCHANGED <<args, input_dict, input_data, input_scaled_df, prediction, probability>>

\* input_dict kept in one module-level dictionary that every call rebinds.
AssembleShared(t) ==
    /\ pc[t] = "assemble"
    /\ input_dict' = [u \in Threads |-> InputDict(args[t], encoded[t])]
    /\ \/ /\ SelectFailure(input_dict'[t], feature_names) # None
          /\ Raise(t, SelectFailure(input_dict'[t], feature_names))
          /\ UNCHANGED input_data
       \/ /\ SelectFailure(input_dict'[t], feature_names) = None
          /\ input_data' = [input_data EXCEPT
                              ![t] = SelectColumns(input_dict'[t], feature_names)]
          /\ pc' = [pc EXCEPT ![t] = "transform"]
          /\ UNCHANGED <<returned, raised>>
    /\ UNCHANGED startup
    /\ UNCHANGED <<args, encoded, input_scaled_df, prediction, probability>>

\* Lines 48-70: input_dict, then input_data = pd.DataFrame([input_dict])[feature_names]
Assemble(t) ==
    /\ pc[t] = "assemble"
    /\ input_dict' = [input_dict EXCEPT ![t] = InputDict(args[t], encoded[t])]
    /\ \/ /\ SelectFailure(input_dict'[t], feature_names) # None
          /\ Raise(t, SelectFailure(input_dict'[t], feature_names))
          /\ UNCHANGED input_data
       \/ /\ SelectFailure(input_dict'[t], feature_names) = None
          /\ input_data' = [input_data EXCEPT
                              ![t] = SelectColumns(input_dict'[t], feature_names)]
          /\ pc' = [pc EXCEPT ![t] = "transform"]
          /\ UNCHANGED <<returned, raised>>
    /\ UNCHANGED startup
    /\ UNCHANGED <<args, encoded, input_scaled_df, prediction, probability>>

\* Lines 72-75: scaler.transform(input_data), rewrapped as a DataFrame.
Transform(t) ==
    /\ pc[t] = "transform"
    /\ \/ /\ \E e \in TransformErrors : ExceptHandler(t, e)
          /\ UNCHANGED input_scaled_df
       \/ /\ input_scaled_df' = [input_scaled_df EXCEPT
                                   ![t] = ScaledFrame(input_data[t], feature_names)]
          /\ pc' = [pc EXCEPT ![t] = "predict"]
          /\ UNCHANGED <<returned, raised>>
    /\ UNCHANGED startup
    /\ UNCHANGED <<args, encoded, input_dict, input_data, prediction, probability>>

\* Lines 77-88: model.predict, model.predict_proba, the verdict string.
Predict(t) ==
    /\ pc[t] = "predict"
    /\ \/ /\ \E e \in PredictErrors : ExceptHandler(t, e)
          /\ UNCHANGED <<prediction, probability>>
       \/ \E label \in Labels, proba \in Probabilities :
             /\ prediction' = [prediction EXCEPT ![t] = <<label>>]
             /\ probability' = [probability EXCEPT ![t] = <<proba>>]
             /\ returned' = [returned EXCEPT ![t] = Verdict(<<label>>, <<proba>>)]
             /\ pc' = [pc EXCEPT ![t] = "returned"]
             /\ UNCHANGED raised
    /\ UNCHANGED startup
    /\ UNCHANGED <<args, encoded, input_dict, input_data, input_scaled_df>>

\* The call is over (a string came back, or an exception reached the
\* caller): its frame is gone and the thread takes the next request.
Finish(t) ==
    /\ pc[t] \in {"returned", "raised"}
    /\ pc' = [pc EXCEPT ![t] = "idle"]
    /\ args' = [args EXCEPT ![t] = None]
    /\ encoded' = [encoded EXCEPT ![t] = None]
    /\ input_dict' = [input_dict EXCEPT ![t] = None]
    /\ input_data' = [input_data EXCEPT ![t] = None]
    /\ input_scaled_df' = [input_scaled_df EXCEPT ![t] = None]
    /\ prediction' = [prediction EXCEPT ![t] = None]
    /\ probability' = [probability EXCEPT ![t] = None]
    /\ returned' = [returned EXCEPT ![t] = None]
    /\ raised' = [raised EXCEPT ![t] = None]
    /\ UNCHANGED startup

Request(t, apps) ==
    \/ Call(t, apps)
    \/ Encode(t)
    \/ Assemble(t)
    \/ Transform(t)
    \/ Predict(t)
    \/ Finish(t)

\* Several requests in flight at once.
Next == Startup \/ \E t \in Threads : Request(t, ConcurrentApplications)

Spec == Init /\ [][Next]_vars

\* One request at a time, over every combination of argument values.
NextSeq == Startup \/ Request(1, Applications)

SpecSeq == Init /\ [][NextSeq]_vars

-----------------------------------------------------------------------------
(* The specification's data model, as the properties below read it.        *)

DeclaredGenders    == {"female", "male"}
DeclaredEducations == {"HighSchool", "Associate", "Bachelor", "Master"}
DeclaredHomes      == {"RENT", "OWN", "MORTGAGE", "OTHER"}
DeclaredDefaults   == {"Yes", "No"}
DeclaredIntents    == {"EDUCATION", "HOMEIMPROVEMENT", "MEDICAL", "PERSONAL", "VENTURE"}

\* The choices the form offers for education (line 99).
FormEducations == {"High School", "Associate", "Bachelor", "Master"}

FeatureKeys == {DictOrder[i] : i \in 1..Len(DictOrder)}

Range(s) == {s[i] : i \in 1..Len(s)}

IsPermutationOfKeys(names) ==
    /\ Len(names) = Cardinality(FeatureKeys)
    /\ Range(names) = FeatureKeys

\* Thread t is past lines 25-46 with every lookup done.
Encoded(t) == pc[t] \notin {"idle", "encode"} /\ encoded[t] # None

\* Thread t is past line 70 with input_data bound.
Assembled(t) == pc[t] \in {"transform", "predict", "returned"}

\* A value of one of the four map-encoded arguments that neither the
\* specification nor the form knows.
UnknownCategory(a) ==
    \/ a.gender \notin DeclaredGenders
    \/ a.education \notin DeclaredEducations \cup FormEducations
    \/ a.home_ownership \notin DeclaredHomes
    \/ a.previous_defaults \notin DeclaredDefaults

IsErrorString(r) == r.kind = "error" /\ r.prefix = "Error: "

\* C1: a call with a categorical argument outside its declared domain ends
\* by returning an error-prefixed string, never by an exception that leaves
\* predict_loan.
C1_DomainErrorReturned ==
    \A t \in Threads :
        (pc[t] \in {"returned", "raised"} /\ UnknownCategory(args[t]))
            => (pc[t] = "returned" /\ IsErrorString(returned[t]))

\* C2: when the loaded feature-name list is not, as a set, the 17 keys of
\* input_dict, no call reaches scaling or inference and every call that
\* returns returns an error.
C2_SchemaMismatchSignalled ==
    (main = "serving" /\ Range(feature_names) # FeatureKeys)
        => \A t \in Threads :
              /\ pc[t] \notin {"transform", "predict"}
              /\ pc[t] = "returned" => IsErrorString(returned[t])

\* C3: once a call is inside the try block (scaling or inference), no step
\* of it ends in an exception leaving predict_loan: a failure of
\* scaler.transform returns an error-prefixed string, the inference step
\* returns an error-prefixed string or a verdict, and the process is still
\* serving afterwards.
C3_InferenceFailuresCaught ==
    [][\A t \in Threads :
          (pc[t] \in {"transform", "predict"} /\ pc'[t] # pc[t])
              => /\ pc'[t] \in {"predict", "returned"}
                 /\ main' = "serving"
                 /\ (pc[t] = "transform" /\ pc'[t] = "returned")
                       => IsErrorString(returned'[t])
                 /\ (pc[t] = "predict")
                       => /\ pc'[t] = "returned"
                          /\ \/ IsErrorString(returned'[t])
                             \/ returned'[t].kind = "verdict"]_vars

C3_Witness ==
    \E t \in Threads :
        /\ pc[t] = "returned"
        /\ IsErrorString(returned[t])
        /\ returned[t].message \in TransformErrors \cup PredictErrors
        /\ input_data[t] # None

\* C4: a verdict follows the returned label: label 0 gives "Loan Approved",
\* label 1 gives "Loan Rejected (High Default Risk)", and the confidence is
\* the probability of the returned label's class times 100, to within half
\* a hundredth of a percent.
C4_ConfidenceOfReturnedLabel ==
    \A t \in Threads :
        (pc[t] = "returned" /\ returned[t].kind = "verdict")
            => LET label == prediction[t][1]
                   p == probability[t][1][label + 1]
                   d == returned[t].confidence * 1000 - p * 100
               IN  /\ label = 0 => returned[t].result = "Loan Approved"
                   /\ label = 1 =>
                         returned[t].result = "Loan Rejected (High Default Risk)"
                   /\ -500 <= d /\ d <= 500

C4_Witness ==
    \E t \in Threads :
        /\ pc[t] = "returned"
        /\ returned[t].kind = "verdict"
        /\ prediction[t] = <<1>>
        /\ probability[t] = << <<87654, 12346>> >>
        /\ returned[t].confidence = 1235

\* C5: for a loan_intent of the declared domain, the assembled record has
\* the indicator named after the intent equal to 1 and the other four
\* equal to 0.
C5_OneHotExclusive ==
    \A t \in Threads :
        (Assembled(t) /\ args[t].loan_intent \in DeclaredIntents)
            => \A i \in DeclaredIntents :
                  input_dict[t]["loan_intent_" \o i] =
                      IF i = args[t].loan_intent THEN 1 ELSE 0

C5_Witness ==
    \E t \in Threads :
        /\ Assembled(t)
        /\ args[t].loan_intent = "VENTURE"
        /\ input_dict[t]["loan_intent_VENTURE"] = 1
        /\ input_dict[t]["loan_intent_PERSONAL"] = 0

\* The trained codes as the specification tabulates them.
DeclaredGenderCodes == [female |-> 0, male |-> 1]
DeclaredEducationCodes ==
    ("HighSchool" :> 0) @@ ("Associate" :> 1) @@ ("Bachelor" :> 2) @@ ("Master" :> 3)
DeclaredHomeCodes ==
    ("RENT" :> 0) @@ ("OWN" :> 1) @@ ("MORTGAGE" :> 2) @@ ("OTHER" :> 3)
DeclaredDefaultsCodes == [No |-> 0, Yes |-> 1]

\* The same education table with the first value spelled as the form spells it.
FormEducationCodes ==
    ("High School" :> 0) @@ ("Associate" :> 1) @@ ("Bachelor" :> 2) @@ ("Master" :> 3)

\* Decoding by a table: the value whose code is c.
Decode(table, c) == CHOOSE v \in DOMAIN table : table[v] = c

\* The codes of a call's four map-encoded arguments agree with the given
\* tables, and decoding them gives the arguments back.
CodesAgree(t, educationCodes) ==
    /\ Encoded(t)
    /\ encoded[t].gender_encoded = DeclaredGenderCodes[args[t].gender]
    /\ encoded[t].education_encoded = educationCodes[args[t].education]
    /\ encoded[t].home_encoded = DeclaredHomeCodes[args[t].home_ownership]
    /\ encoded[t].defaults_encoded = DeclaredDefaultsCodes[args[t].previous_defaults]
    /\ Decode(DeclaredGenderCodes, encoded[t].gender_encoded) = args[t].gender
    /\ Decode(educationCodes, encoded[t].education_encoded) = args[t].education
    /\ Decode(DeclaredHomeCodes, encoded[t].home_encoded) = args[t].home_ownership
    /\ Decode(DeclaredDefaultsCodes, encoded[t].defaults_encoded) = args[t].previous_defaults

\* The four map-encoded arguments of a are in the given domains.
InDomains(a, educations) ==
    /\ a.gender \in DeclaredGenders
    /\ a.education \in educations
    /\ a.home_ownership \in DeclaredHomes
    /\ a.previous_defaults \in DeclaredDefaults

\* C6 as stated: for every value of the declared domains, education spelled
\* HighSchool included, the lookups succeed with the codes of the
\* specification's tables and decoding recovers the value.
C6_DeclaredTables ==
    \A t \in Threads :
        (pc[t] \notin {"idle", "encode"} /\ InDomains(args[t], DeclaredEducations))
            => CodesAgree(t, DeclaredEducationCodes)

\* C6 amended: the same with the education value spelled "High School", as
\* the form offers it: the lookups succeed on every such value, give the
\* tabulated codes, and decoding recovers the value (no two values of a
\* field share a code).
C6_FormTables ==
    \A t \in Threads :
        (pc[t] \notin {"idle", "encode"} /\ InDomains(args[t], FormEducations))
            => CodesAgree(t, FormEducationCodes)

C6_Witness ==
    \E t \in Threads :
        /\ Encoded(t)
        /\ args[t].education = "High School"
        /\ encoded[t].education_encoded = 0
        /\ args[t].home_ownership = "OTHER"
        /\ encoded[t].home_encoded = 3

\* A RawApplication whose categorical arguments are choices of the form.
ValidApplication(a) ==
    /\ InDomains(a, FormEducations)
    /\ a.loan_intent \in DeclaredIntents

\* The value the specification gives the named feature: a raw numeric
\* argument, a tabulated code, or an intent indicator.
FeatureValue(a, name) ==
    CASE name = "person_age" -> a.age
      [] name = "person_gender" -> DeclaredGenderCodes[a.gender]
      [] name = "person_education" -> FormEducationCodes[a.education]
      [] name = "person_income" -> a.income
      [] name = "person_emp_exp" -> a.emp_exp
      [] name = "person_home_ownership" -> DeclaredHomeCodes[a.home_ownership]
      [] name = "loan_amnt" -> a.loan_amount
      [] name = "loan_int_rate" -> a.interest_rate
      [] name = "loan_percent_income" -> a.loan_percent_income
      [] name = "cb_person_cred_hist_length" -> a.credit_history
      [] name = "credit_score" -> a.credit_score
      [] name = "previous_loan_defaults_on_file" -> DeclaredDefaultsCodes[a.previous_defaults]
      [] OTHER -> IF name = "loan_intent_" \o a.loan_intent THEN 1 ELSE 0

\* C7: for a valid application and a feature-name list that is a
\* permutation of the 17 keys, the call is assembled (no exception), the
\* record has exactly the 17 keys, and the frame handed to scaler.transform
\* carries at position i the value of the feature feature_names[i].
C7_VectorFollowsFeatureNames ==
    \A t \in Threads :
        (/\ pc[t] \notin {"idle", "encode", "assemble"}
         /\ ValidApplication(args[t])
         /\ IsPermutationOfKeys(feature_names))
            => /\ Assembled(t)
               /\ DOMAIN input_dict[t] = FeatureKeys
               /\ input_data[t].columns = feature_names
               /\ DOMAIN input_data[t].values = 1..Len(feature_names)
               /\ \A i \in 1..Len(feature_names) :
                     input_data[t].values[i] = FeatureValue(args[t], feature_names[i])

C7_Witness ==
    \E t \in Threads :
        /\ pc[t] = "transform"
        /\ ValidApplication(args[t])
        /\ feature_names = Reverse(DictOrder)
        /\ input_data[t].values[1] = 0
        /\ input_data[t].values[2] = 1
        /\ input_data[t].values[17] = 45

\* C8: nothing is served unless the load completed with all three parts:
\* whenever the process serves, or a call is in flight, the file existed,
\* unpickled, held model, scaler and feature_names, and the three globals
\* are bound to them; a load that failed leaves the process not serving.
C8_ServesOnlyCompleteArtifact ==
    /\ (main = "serving" \/ \E t \in Threads : pc[t] # "idle")
          => /\ bundle_file.exists
             /\ bundle_file.pickle
             /\ BundleKeys \subseteq DOMAIN bundle_file.data
             /\ model = bundle_file.data["model"]
             /\ scaler = bundle_file.data["scaler"]
             /\ feature_names = bundle_file.data["feature_names"]
             /\ load_error = "none"
    /\ (~bundle_file.exists \/ ~bundle_file.pickle
           \/ ~(BundleKeys \subseteq DOMAIN bundle_file.data))
          => main \in {"import", "model", "scaler", "feature_names", "fatal"}

C8_Witness ==
    /\ main = "fatal"
    /\ load_error = "KeyError"
    /\ DOMAIN model_data = {"model", "feature_names"}
    /\ model = "model"

\* The globals and the file as one value.
Artifact == <<bundle_file, model_data, model, scaler, feature_names>>

\* The frame of thread t.
Frame(t) ==
    <<args[t], encoded[t], input_dict[t], input_data[t], input_scaled_df[t],
      prediction[t], probability[t], returned[t], raised[t]>>

\* C9, the steps: once serving, no step changes the artifact, and a step
\* changes the frame of at most one thread.
C9_StepFrame ==
    main = "serving"
        => /\ Artifact' = Artifact
           /\ \A t, u \in Threads :
                 (Frame(t)' # Frame(t) /\ Frame(u)' # Frame(u)) => t = u

\* C9, the values: what a call holds is what its own arguments and the
\* artifact as loaded give, whatever the other threads did.
C9_OwnValues ==
    \A t \in Threads :
        /\ Encoded(t) => encoded[t] = EncodeLocals(args[t])
        /\ Assembled(t) =>
              /\ input_dict[t] = InputDict(args[t], EncodeLocals(args[t]))
              /\ input_data[t] = SelectColumns(input_dict[t],
                                               bundle_file.data["feature_names"])
        /\ (pc[t] = "returned" /\ returned[t].kind = "verdict")
              => returned[t] = Verdict(prediction[t], probability[t])

\* C9: after the load, no interleaving of calls changes the artifact or
\* another call's values, and each call's values depend on its own
\* arguments and the artifact only.
C9_ArtifactAndFramesIsolated == []C9_OwnValues /\ [][C9_StepFrame]_vars

C9_Witness ==
    \E t, u \in Threads :
        /\ t # u
        /\ pc[t] = "returned"
        /\ IsErrorString(returned[t])
        /\ pc[u] = "returned"
        /\ returned[u].kind = "verdict"
        /\ args[u] # args[t]
        /\ Artifact = <<bundle_file, bundle_file.data, "model", "scaler",
                        bundle_file.data["feature_names"]>>

\* C10: a loan_intent outside the declared domain does not make the encoder
\* fail.  With the four map-encoded arguments valid, the lookups succeed,
\* all five indicators are 0, the only exception that can leave the call is
\* the column selection's (a feature name that is no key), and a call that
\* returns returns a verdict or the caught error of scaling or inference.
\* With another argument invalid, the KeyError names that argument's value.
C10_UnknownIntentEncodesAllZero ==
    \A t \in Threads :
        (pc[t] \notin {"idle", "encode"} /\ args[t].loan_intent \notin DeclaredIntents)
            => IF InDomains(args[t], FormEducations)
               THEN /\ Encoded(t)
                    /\ \A i \in DeclaredIntents :
                          InputDict(args[t], encoded[t])["loan_intent_" \o i] = 0
                    /\ Assembled(t) =>
                          \A i \in DeclaredIntents : input_dict[t]["loan_intent_" \o i] = 0
                    /\ pc[t] = "raised" => ~(Range(feature_names) \subseteq FeatureKeys)
                    /\ pc[t] = "returned" =>
                          \/ returned[t].kind = "verdict"
                          \/ /\ IsErrorString(returned[t])
                             /\ returned[t].message \in TransformErrors \cup PredictErrors
               ELSE /\ pc[t] = "raised"
                    /\ raised[t].key # args[t].loan_intent

C10_Witness ==
    \E t \in Threads :
        /\ pc[t] = "returned"
        /\ args[t].loan_intent = "DEBTCONSOLIDATION"
        /\ returned[t].kind = "verdict"
        /\ \A i \in DeclaredIntents : input_dict[t]["loan_intent_" \o i] = 0

====
